---------------------------- MODULE Spec2Model ----------------------------
(***************************************************************************)
(* Model of the two scripts of the repository:                             *)
(*   simulate_hashing_project.py  the simulation pipeline                  *)
(*   measure_hash_times.py        the timing probe                         *)
(*                                                                         *)
(* Representation choices.                                                 *)
(*  - A Python str is a sequence of one-character strings.                 *)
(*  - A Python float is a fixed-point integer: the value v is held as      *)
(*    v * Scale.  Every literal of the probability model (0.95, 0.001,     *)
(*    0.4, ...) is exact at this scale; math.exp, math.log2 and ** are     *)
(*    computed by series at this scale and are accurate to about 1e-3.     *)
(*  - The Mersenne Twister behind the random module is abstracted by a     *)
(*    16-bit linear congruential generator.  What is kept is that the      *)
(*    stream is a function of the seed and that each call consumes one     *)
(*    step.  Since the abstraction does not reproduce the stream of the    *)
(*    program's seed, the initial generator state ranges over Seeds.       *)
(*  - The iteration order of a set of str depends on the per-process       *)
(*    string hash; it is modelled by sorting on a hash keyed by hashseed,  *)
(*    which every process start picks anew.                                *)
(***************************************************************************)
EXTENDS Integers, Sequences, FiniteSets, TLC

VARIABLES
  \* ---- simulate_hashing_project.py
  pc,          \* position of the pipeline in the script
  run,         \* ordinal of the current process (1 = first run)
  seed,        \* argument of random.seed
  rng,         \* state of the random module's generator
  hashseed,    \* per-process str hash key (decides set iteration order)
  pw_df,       \* the generated password records
  dict_words,  \* the attacker dictionary as a set
  dict_list,   \* list(dict_words)
  small_dict,  \* set(dict_list[:500])
  large_dict,  \* set(dict_list[:4000])
  loop,        \* indices of the nested trial loops
  prob,        \* crack probability of the latest trial
  rows,        \* the trial table
  summary,     \* the aggregated table
  plotdf,      \* the slice that is plotted
  files,       \* contents of ./results, by file name
  stdout,      \* lines printed by the pipeline
  history,     \* outputs of the completed earlier runs, oldest first
  \* ---- one trial on chosen inputs
  tpc,         \* "ready" before the trial, "done" after
  arg,         \* the arguments of crack_probability / base_hash_time_ms
  trial,       \* the results of the trial
  \* ---- measure_hash_times.py
  ppc,         \* position of the probe in the script
  installed,   \* which optional libraries the machine has
  bcrypt,      \* the name bcrypt: "module" or "None"
  PasswordHasher, \* the name PasswordHasher: "class" or "None"
  times,       \* time_func's list of measured durations
  measured,    \* (mean, stdev) returned by the latest time_func
  printed      \* lines printed by the probe

simVars   == <<pc, run, seed, rng, hashseed, pw_df, dict_words, dict_list,
               small_dict, large_dict, loop, prob, rows, summary, plotdf,
               files, stdout, history>>
trialVars == <<tpc, arg, trial>>
probeVars == <<ppc, installed, bcrypt, PasswordHasher, times, measured, printed>>
vars      == <<simVars, trialVars, probeVars>>

-----------------------------------------------------------------------------
(* Bounds of the model *)

\* generate_passwords(n): the script uses the default n = 2000
NumPasswords == 2
\* number of filler words "word<i>" (5000 in the script)
FillerCount == 4
\* size of the small dictionary prefix (500 in the script)
SmallPrefix == 12
\* size of the large dictionary prefix (4000 in the script)
LargePrefix == 56
\* per-process hash keys range over 0..MaxHashSeed
MaxHashSeed == 1
\* number of runs of the pipeline that are followed
MaxRuns == 2
\* largest bcrypt cost tried on crack_probability (smallest: 4)
MaxCost == 13
\* largest Argon2 memory tried on crack_probability is 2^MaxMemExp KB
MaxMemExp == 11

-----------------------------------------------------------------------------
(* Fixed-point arithmetic standing in for Python floats *)

Scale == 10^4

Max(a, b) == IF a >= b THEN a ELSE b
Min(a, b) == IF a <= b THEN a ELSE b

\* a * b for two fixed-point values
Mul(a, b) == (a * b) \div Scale

\* sum of the series x^n / n! from term number n on, x >= 0
RECURSIVE ExpSeries(_, _, _)
ExpSeries(x, term, n) ==
  IF term = 0 THEN 0
  ELSE term + ExpSeries(x, Mul(term, x) \div n, n + 1)

\* math.exp
Exp(x) ==
  IF x >= 0 THEN ExpSeries(x, Scale, 1)
  ELSE (Scale * Scale) \div ExpSeries(-x, Scale, 1)

RECURSIVE Pow2(_)
Pow2(k) == IF k = 0 THEN 1 ELSE 2 * Pow2(k - 1)

RECURSIVE FloorLog2(_)
FloorLog2(n) == IF n < 2 THEN 0 ELSE 1 + FloorLog2(n \div 2)

\* fractional bits of log2(m / Scale) for Scale <= m < 2 * Scale
RECURSIVE Log2Frac(_, _, _)
Log2Frac(m, weight, bits) ==
  IF bits = 0 \/ weight = 0 THEN 0
  ELSE LET sq == Mul(m, m)
       IN  IF sq >= 2 * Scale
           THEN weight + Log2Frac(sq \div 2, weight \div 2, bits - 1)
           ELSE Log2Frac(sq, weight \div 2, bits - 1)

\* math.log2 of an integer n >= 1
Log2(n) ==
  LET k == FloorLog2(n)
  IN  k * Scale + Log2Frac((n * Scale) \div Pow2(k), Scale \div 2, 14)

\* b ** n for a fixed-point b and an integer n
RECURSIVE PowInt(_, _)
PowInt(b, n) ==
  IF n = 0 THEN Scale
  ELSE IF n > 0 THEN Mul(PowInt(b, n - 1), b)
  ELSE (Scale * Scale) \div PowInt(b, -n)

\* natural logarithm of 0.9, the base of the Argon2 decay
Ln09 == -1054

\* 0.9 ** y for a fixed-point y
Pow09(y) == Exp(Mul(y, Ln09))

-----------------------------------------------------------------------------
(* str *)

Lowercase ==
  <<"a","b","c","d","e","f","g","h","i","j","k","l","m",
    "n","o","p","q","r","s","t","u","v","w","x","y","z">>
Uppercase ==
  <<"A","B","C","D","E","F","G","H","I","J","K","L","M",
    "N","O","P","Q","R","S","T","U","V","W","X","Y","Z">>
Digits == <<"0","1","2","3","4","5","6","7","8","9">>

Range(s) == { s[i] : i \in DOMAIN s }

IndexOf(s, c) == CHOOSE i \in DOMAIN s : s[i] = c

UppercaseLetters == Range(Uppercase)
Alphanumerics == Range(Lowercase) \cup Range(Uppercase) \cup Range(Digits)

\* str.lower on one character
LowerChar(c) == IF c \in UppercaseLetters THEN Lowercase[IndexOf(Uppercase, c)] ELSE c

\* str.lower
Lower(s) == [ i \in DOMAIN s |-> LowerChar(s[i]) ]

\* str.isalnum on one character
IsAlnum(c) == c \in Alphanumerics

\* str(n) for an integer n >= 0
RECURSIVE Str(_)
Str(n) == IF n < 10 THEN << Digits[n + 1] >> ELSE Str(n \div 10) \o << Digits[(n % 10) + 1] >>

-----------------------------------------------------------------------------
(* random *)

RngModulus == 2^16

\* one step of the generator
RngNext(g) == (g * 25173 + 13849) % RngModulus

\* generator state after n steps
RECURSIVE RngAt(_, _)
RngAt(g, n) == IF n = 0 THEN g ELSE RngAt(RngNext(g), n - 1)

\* random.seed(seed): the state the generator starts from
SeedState(s) == s % RngModulus

\* random.random() called in state g: a fixed-point value in [0, 1)
Random(g) == (RngNext(g) * Scale) \div RngModulus

\* index drawn by random.choice / random.randint over n alternatives: 0..n-1
RandBelow(g, n) == (Random(g) * n) \div Scale

-----------------------------------------------------------------------------
(* generate_passwords *)

WeakBases ==
  << <<"p","a","s","s","w","o","r","d">>,
     <<"1","2","3","4","5","6">>,
     <<"q","w","e","r","t","y">>,
     <<"l","e","t","m","e","i","n">>,
     <<"w","e","l","c","o","m","e">>,
     <<"a","d","m","i","n">>,
     <<"i","l","o","v","e","y","o","u">>,
     <<"s","u","n","s","h","i","n","e">>,
     <<"m","o","n","k","e","y">>,
     <<"d","r","a","g","o","n">> >>

MediumBases ==
  << <<"f","o","o","t","b","a","l","l">>,
     <<"b","a","s","e","b","a","l","l">>,
     <<"c","o","m","p","u","t","e","r">>,
     <<"c","o","f","f","e","e">>,
     <<"i","l","o","v","e","u">>,
     <<"f","l","o","w","e","r">>,
     <<"p","u","r","p","l","e">> >>

MediumSymbols ==
  << <<"2","0","2","0">>, <<"!">>, <<"$">>, <<"1","2","3">>, <<"_">> >>

MediumTails ==
  << <<"1">>, <<"9","9">>, <<"x">> >>

StrongAlphabet ==
  <<"a","b","c","d","e","f","g","h","i","j","k","l","m","n","o","p","q","r","s",
    "t","u","v","w","x","y","z","A","B","C","D","E","F","G","H","I","J","K","L",
    "M","N","O","P","Q","R","S","T","U","V","W","X","Y","Z","0","1","2","3","4",
    "5","6","7","8","9","!","@","#","$","%","^","&","*","(",")","-","_","=","+">>

\* the weak branch: base word b (1-based) and numeric suffix n in 0..999
WeakPassword(b, n) == WeakBases[b] \o Str(n)

\* MediumPassword with the last concatenation left out
MediumPasswordNoTail(b, s, t) == MediumBases[b] \o MediumSymbols[s]

\* the medium branch: base word b, symbol s, tail t (all 1-based)
MediumPassword(b, s, t) == MediumBases[b] \o MediumSymbols[s] \o MediumTails[t]

\* the strong branch: k characters drawn one after the other from state g
RECURSIVE StrongPassword(_, _)
StrongPassword(g, k) ==
  IF k = 0 THEN << >>
  ELSE << StrongAlphabet[RandBelow(g, Len(StrongAlphabet)) + 1] >>
         \o StrongPassword(RngNext(g), k - 1)

\* one iteration of the loop of generate_passwords, started in generator
\* state g: the record built and the generator state it leaves
GeneratePassword(i, g) ==
  LET r  == Random(g)
      g1 == RngNext(g)
  IN  IF r < 5000
      THEN [ rec |-> [ id |-> i,
                       password |-> WeakPassword(RandBelow(g1, Len(WeakBases)) + 1,
                                                 RandBelow(RngNext(g1), 1000)),
                       strength |-> "weak" ],
             rng |-> RngAt(g1, 2) ]
      ELSE IF r < 8500
      THEN [ rec |-> [ id |-> i,
                       password |-> MediumPassword(
                                      RandBelow(g1, Len(MediumBases)) + 1,
                                      RandBelow(RngAt(g1, 1), Len(MediumSymbols)) + 1,
                                      RandBelow(RngAt(g1, 2), Len(MediumTails)) + 1),
                       strength |-> "medium" ],
             rng |-> RngAt(g1, 3) ]
      ELSE LET k == 12 + RandBelow(g1, 9)
           IN  [ rec |-> [ id |-> i,
                           password |-> StrongPassword(RngNext(g1), k),
                           strength |-> "strong" ],
                 rng |-> RngAt(g1, 1 + k) ]

-----------------------------------------------------------------------------
(* the attacker dictionary *)

SeedWords ==
  << <<"p","a","s","s","w","o","r","d">>,
     <<"1","2","3","4","5","6">>,
     <<"q","w","e","r","t","y">>,
     <<"l","e","t","m","e","i","n">>,
     <<"w","e","l","c","o","m","e">>,
     <<"a","d","m","i","n">>,
     <<"i","l","o","v","e","y","o","u">>,
     <<"s","u","n","s","h","i","n","e">>,
     <<"m","o","n","k","e","y">>,
     <<"d","r","a","g","o","n">>,
     <<"f","o","o","t","b","a","l","l">>,
     <<"b","a","s","e","b","a","l","l">>,
     <<"c","o","m","p","u","t","e","r">>,
     <<"c","o","f","f","e","e">>,
     <<"f","l","o","w","e","r">>,
     <<"p","u","r","p","l","e">>,
     <<"i","l","o","v","e","u">> >>

Suffixes ==
  << <<"1","2","3">>, <<"2","0","2","0">>, <<"!">> >>

\* dict_words after the two update calls
BuildDictWords ==
  LET seeds == Range(SeedWords)
  IN  seeds
        \cup { w \o s : w \in seeds, s \in Range(Suffixes) }
        \cup { <<"w","o","r","d">> \o Str(i) : i \in 0 .. FillerCount - 1 }

\* hash of a str under the process's hash key h
RECURSIVE StrHash(_, _, _)
StrHash(w, h, acc) ==
  IF w = << >> THEN acc
  ELSE StrHash(Tail(w), h, (acc * (33 + h) + IndexOf(StrongAlphabet, Head(w))) % 65521)

\* the elements of a set of <<hash, str>> pairs by increasing hash
RECURSIVE ByHash(_)
ByHash(K) ==
  IF K = {} THEN << >>
  ELSE LET k == CHOOSE p \in K : \A q \in K : p[1] <= q[1]
       IN  << k[2] >> \o ByHash(K \ {k})

\* list(S) for a set S of str in a process whose hash key is h
SetToList(S, h) == ByHash({ << StrHash(w, h, 5381), w >> : w \in S })

\* set(l[:n])
PrefixSet(l, n) == { l[i] : i \in 1 .. Min(n, Len(l)) }

-----------------------------------------------------------------------------
(* the algorithm table and the two models *)

algorithms ==
  << [ name |-> "MD5",    type |-> "fast" ],
     [ name |-> "SHA1",   type |-> "fast" ],
     [ name |-> "SHA256", type |-> "fast" ],
     [ name |-> "PBKDF2", type |-> "iter",   iterations |-> <<1000, 10000, 50000>> ],
     [ name |-> "bcrypt", type |-> "cost",   costs      |-> <<8, 10, 12>> ],
     [ name |-> "Argon2", type |-> "memory", mem_kb     |-> <<32, 256, 1024>> ] >>

FastDigests == { "MD5", "SHA1", "SHA256" }

\* the dict {} passed for the fast digests
EmptyParam == [ k \in {} |-> 0 ]

\* param.get(key, default)
Get(param, key, default) == IF key \in DOMAIN param THEN param[key] ELSE default

\* 2 ** n as a fixed-point value, n an integer
TwoToThe(n) == IF n >= 0 THEN Pow2(n) * Scale ELSE Scale \div Pow2(-n)

base_hash_time_ms(algo, param) ==
  CASE algo = "MD5"    -> 500
    [] algo = "SHA1"   -> 800
    [] algo = "SHA256" -> 1200
    [] algo = "PBKDF2" -> (2 * Get(param, "iterations", 1000)) \div 10
    [] algo = "bcrypt" -> (TwoToThe(Get(param, "cost", 10) - 6) * 12) \div 10
    [] algo = "Argon2" -> Log2(Get(param, "mem_kb", 32) + 1) \div 2
    [] OTHER           -> Scale

\* Simplified without the call of lower
SimplifiedCaseSensitive(pwstr) == SelectSeq(pwstr, IsAlnum)

\* "".join(ch for ch in pwstr.lower() if ch.isalnum())
Simplified(pwstr) == SelectSeq(Lower(pwstr), IsAlnum)

\* (pwstr in attacker_dict) or (simplified in attacker_dict)
InDict(pwstr, attacker_dict) ==
  (pwstr \in attacker_dict) \/ (Simplified(pwstr) \in attacker_dict)

\* HitBase with the fast-digest values of weak and medium exchanged
HitBaseSwapped(strength, algo, param) ==
  CASE algo \in FastDigests ->
         IF strength = "weak" THEN 7000
         ELSE IF strength = "medium" THEN 9500 ELSE 2000
    [] algo = "PBKDF2" ->
         LET it == Get(param, "iterations", 1000)
         IN  Mul(9000, Exp(-((4 * (it - 1000)) \div 10)))
    [] algo = "bcrypt" ->
         LET cost == Get(param, "cost", 10)
         IN  Mul(9000, PowInt(8500, cost - 8))
    [] algo = "Argon2" ->
         LET mem == Get(param, "mem_kb", 32)
         IN  Mul(8000, Pow09(Log2(mem + 1)))

\* HitBase with the sign of the bcrypt exponent reversed
HitBaseGrowing(strength, algo, param) ==
  CASE algo \in FastDigests ->
         IF strength = "weak" THEN 9500
         ELSE IF strength = "medium" THEN 7000 ELSE 2000
    [] algo = "PBKDF2" ->
         LET it == Get(param, "iterations", 1000)
         IN  Mul(9000, Exp(-((4 * (it - 1000)) \div 10)))
    [] algo = "bcrypt" ->
         LET cost == Get(param, "cost", 10)
         IN  Mul(9000, PowInt(8500, 8 - cost))
    [] algo = "Argon2" ->
         LET mem == Get(param, "mem_kb", 32)
         IN  Mul(8000, Pow09(Log2(mem + 1)))

\* the base probability of a password found in the dictionary
HitBase(strength, algo, param) ==
  CASE algo \in FastDigests ->
         IF strength = "weak" THEN 9500
         ELSE IF strength = "medium" THEN 7000 ELSE 2000
    [] algo = "PBKDF2" ->
         LET it == Get(param, "iterations", 1000)
         IN  Mul(9000, Exp(-((4 * (it - 1000)) \div 10)))
    [] algo = "bcrypt" ->
         LET cost == Get(param, "cost", 10)
         IN  Mul(9000, PowInt(8500, cost - 8))
    [] algo = "Argon2" ->
         LET mem == Get(param, "mem_kb", 32)
         IN  Mul(8000, Pow09(Log2(mem + 1)))

\* the base probability of a password that is not in the dictionary
MissBase(strength) ==
  IF strength = "weak" THEN 500
  ELSE IF strength = "medium" THEN 200 ELSE 10

\* Salt dividing by the factor instead of multiplying
SaltDividing(base, algo) == IF algo \in FastDigests THEN (base * 10) \div 4 ELSE (base * 10) \div 7

\* base *= 0.4 if algo in ["MD5","SHA1","SHA256"] else 0.7
Salt(base, algo) == IF algo \in FastDigests THEN (base * 4) \div 10 ELSE (base * 7) \div 10

\* Clamp with the clamp left out
ClampMissing(base) == base

\* max(0, min(1, base))
Clamp(base) == Max(0, Min(Scale, base))

\* the probability before the clamp
Unclamped(pw, algo, param, salted, attacker_dict) ==
  LET base == IF InDict(pw.password, attacker_dict)
              THEN HitBase(pw.strength, algo, param)
              ELSE MissBase(pw.strength)
  IN  IF salted THEN Salt(base, algo) ELSE base

crack_probability(pw, algo, param, salted, attacker_dict) ==
  Clamp(Unclamped(pw, algo, param, salted, attacker_dict))

-----------------------------------------------------------------------------
(* simulate_hashing_project.py: the pipeline *)

Seeds == { 42, 43, 44, 745 }
HashSeeds == 0 .. MaxHashSeed

SaltedValues == << FALSE, TRUE >>
DictNames == << "small", "large" >>

\* the nested loops start at their first elements
FirstLoop == [ alg |-> 1, par |-> 1, salted |-> 1, dict |-> 1, pw |-> 1 ]

\* Advance with the password loop ending one record early
AdvanceOneShort(l, nparams) ==
  IF l.pw < NumPasswords - 1 THEN [ l EXCEPT !.pw = l.pw + 1 ]
  ELSE IF l.dict < Len(DictNames) THEN [ l EXCEPT !.pw = 1, !.dict = l.dict + 1 ]
  ELSE IF l.salted < Len(SaltedValues)
       THEN [ l EXCEPT !.pw = 1, !.dict = 1, !.salted = l.salted + 1 ]
  ELSE IF l.par < nparams
       THEN [ l EXCEPT !.pw = 1, !.dict = 1, !.salted = 1, !.par = l.par + 1 ]
  ELSE [ FirstLoop EXCEPT !.alg = l.alg + 1 ]

\* the next position of the nested loops, innermost first; nparams is the
\* number of parameter values of the current algorithm
Advance(l, nparams) ==
  IF l.pw < NumPasswords THEN [ l EXCEPT !.pw = l.pw + 1 ]
  ELSE IF l.dict < Len(DictNames) THEN [ l EXCEPT !.pw = 1, !.dict = l.dict + 1 ]
  ELSE IF l.salted < Len(SaltedValues)
       THEN [ l EXCEPT !.pw = 1, !.dict = 1, !.salted = l.salted + 1 ]
  ELSE IF l.par < nparams
       THEN [ l EXCEPT !.pw = 1, !.dict = 1, !.salted = 1, !.par = l.par + 1 ]
  ELSE [ FirstLoop EXCEPT !.alg = l.alg + 1 ]

\* the files a write leaves in ./results
WriteFile(fs, name, content) == (name :> content) @@ fs

\* nothing computed yet
Blank ==
  /\ pw_df = << >>
  /\ dict_words = {}
  /\ dict_list = << >>
  /\ small_dict = {}
  /\ large_dict = {}
  /\ loop = FirstLoop
  /\ prob = 0
  /\ rows = << >>
  /\ summary = {}
  /\ plotdf = << >>
  /\ stdout = << >>

NoTrial == [ hash_time_ms |-> 0, prob |-> 0, draw |-> 0, cracked |-> FALSE ]

TrialIdle ==
  /\ tpc = "idle"
  /\ arg = [ pw |-> [ id |-> 0, password |-> << >>, strength |-> "weak" ],
             algo |-> "MD5", param |-> EmptyParam, salted |-> FALSE,
             attacker_dict |-> {} ]
  /\ trial = NoTrial

ProbeIdle ==
  /\ ppc = "idle"
  /\ installed = {}
  /\ bcrypt = "None"
  /\ PasswordHasher = "None"
  /\ times = << >>
  /\ measured = << 0, 0 >>
  /\ printed = << >>

\* a process that has run the imports, random.seed and OUT.mkdir
Init ==
  /\ run = 1
  /\ seed \in Seeds
  /\ hashseed \in HashSeeds
  /\ files = [ f \in {} |-> << >> ]
  /\ history = << >>
  /\ pc = "generate"
  /\ rng = SeedState(seed)
  /\ Blank
  /\ TrialIdle
  /\ ProbeIdle

\* one iteration of the loop of generate_passwords
Generate ==
  /\ pc = "generate"
  /\ Len(pw_df) < NumPasswords
  /\ LET g == GeneratePassword(Len(pw_df), rng)
     IN  /\ pw_df' = Append(pw_df, g.rec)
         /\ rng' = g.rng
  /\ UNCHANGED << pc, run, seed, hashseed, dict_words, dict_list, small_dict,
                  large_dict, loop, prob, rows, summary, plotdf, files,
                  stdout, history, trialVars, probeVars >>

\* pw_df.to_csv(OUT / "passwords.csv")
WritePasswords ==
  /\ pc = "generate"
  /\ Len(pw_df) = NumPasswords
  /\ files' = WriteFile(files, "passwords.csv", pw_df)
  /\ pc' = "dictionary"
  /\ UNCHANGED << run, seed, rng, hashseed, pw_df, dict_words, dict_list,
                  small_dict, large_dict, loop, prob, rows, summary, plotdf,
                  stdout, history, trialVars, probeVars >>

\* the dictionary is built, listed and written
BuildDictionary ==
  /\ pc = "dictionary"
  /\ dict_words' = BuildDictWords
  /\ dict_list' = SetToList(dict_words', hashseed)
  /\ files' = WriteFile(files, "dictionary.txt", dict_list')
  /\ pc' = "slice"
  /\ UNCHANGED << run, seed, rng, hashseed, pw_df, small_dict, large_dict,
                  loop, prob, rows, summary, plotdf, stdout, history, trialVars, probeVars >>

\* small_dict and large_dict
SliceDictionary ==
  /\ pc = "slice"
  /\ small_dict' = PrefixSet(dict_list, SmallPrefix)
  /\ large_dict' = PrefixSet(dict_list, LargePrefix)
  /\ pc' = "trials"
  /\ UNCHANGED << run, seed, rng, hashseed, pw_df, dict_words, dict_list,
                  loop, prob, rows, summary, plotdf, files, stdout, history, trialVars, probeVars >>

\* the dictionary the loop variable dictset is bound to
DictSet(name) == IF name = "small" THEN small_dict ELSE large_dict

\* the body of the innermost loop: one row appended, one number drawn
TrialRow(name, label, param) ==
  LET salted  == SaltedValues[loop.salted]
      dictname == DictNames[loop.dict]
      pw      == pw_df[loop.pw]
      t       == base_hash_time_ms(name, param)
      p       == crack_probability(pw, name, param, salted, DictSet(dictname))
  IN  /\ prob' = p
      /\ rows' = Append(rows, [ algorithm |-> name, param |-> label,
                                salted |-> salted, dict |-> dictname,
                                strength |-> pw.strength, hash_time_ms |-> t,
                                cracked |-> (p > Random(rng)) ])
      /\ rng' = RngNext(rng)

\* where the loops stand after the row: the next row, or the end of the loops
Step(nparams) ==
  /\ loop' = Advance(loop, nparams)
  /\ pc' = IF loop'.alg > Len(algorithms) THEN "aggregate" ELSE "trials"
  /\ UNCHANGED << run, seed, hashseed, pw_df, dict_words, dict_list,
                  small_dict, large_dict, summary, plotdf, files, stdout,
                  history, trialVars, probeVars >>

TrialPBKDF2 ==
  /\ pc = "trials"
  /\ algorithms[loop.alg].name = "PBKDF2"
  /\ LET it == algorithms[loop.alg].iterations[loop.par]
     IN  TrialRow("PBKDF2", << "iters=", it >>, [ iterations |-> it ])
  /\ Step(Len(algorithms[loop.alg].iterations))

TrialBcrypt ==
  /\ pc = "trials"
  /\ algorithms[loop.alg].name = "bcrypt"
  /\ LET cost == algorithms[loop.alg].costs[loop.par]
     IN  TrialRow("bcrypt", << "cost=", cost >>, [ cost |-> cost ])
  /\ Step(Len(algorithms[loop.alg].costs))

TrialArgon2 ==
  /\ pc = "trials"
  /\ algorithms[loop.alg].name = "Argon2"
  /\ LET mem == algorithms[loop.alg].mem_kb[loop.par]
     IN  TrialRow("Argon2", << "mem=", mem, "KB" >>, [ mem_kb |-> mem ])
  /\ Step(Len(algorithms[loop.alg].mem_kb))

TrialFast ==
  /\ pc = "trials"
  /\ algorithms[loop.alg].name \notin { "PBKDF2", "bcrypt", "Argon2" }
  /\ TrialRow(algorithms[loop.alg].name, << >>, EmptyParam)
  /\ Step(1)

\* the one element of a singleton set
The(S) == CHOOSE x \in S : TRUE

\* the sum of the first n elements of a sequence of numbers
RECURSIVE SumTo(_, _)
SumTo(xs, n) == IF n = 0 THEN 0 ELSE xs[n] + SumTo(xs, n - 1)

\* the sum of a sequence of numbers
SumSeq(xs) == The({ SumTo(v, Len(v)) : v \in { xs } })

\* the aggregations of groupby(...).agg: "count", "sum" and "mean"
Count(col) == Len(col)
SumBool(col) == SumSeq([ i \in DOMAIN col |-> IF col[i] THEN 1 ELSE 0 ])
MeanBool(col) == SumSeq([ i \in DOMAIN col |-> IF col[i] THEN Scale ELSE 0 ]) \div Len(col)
MeanFloat(col) == SumSeq(col) \div Len(col)

GroupKey(r) == << r.algorithm, r.param, r.salted, r.dict >>

\* df.groupby(["algorithm","param","salted","dict"]).agg(...).reset_index()
Aggregated(df) ==
  { LET g == SelectSeq(df, LAMBDA r : GroupKey(r) = k)
        cracked == [ i \in DOMAIN g |-> g[i].cracked ]
        hash_time == [ i \in DOMAIN g |-> g[i].hash_time_ms ]
    IN  [ algorithm |-> k[1], param |-> k[2], salted |-> k[3], dict |-> k[4],
          total |-> Count(cracked),
          cracked_sum |-> SumBool(cracked),
          cracked_rate |-> MeanBool(cracked),
          avg_hash_time_ms |-> MeanFloat(hash_time) ]
    : k \in { GroupKey(df[i]) : i \in DOMAIN df } }

\* the rows of a table by increasing avg_hash_time_ms
RECURSIVE SortByTime(_)
SortByTime(S) ==
  IF S = {} THEN << >>
  ELSE LET r == CHOOSE x \in S : \A y \in S : x.avg_hash_time_ms <= y.avg_hash_time_ms
       IN  << r >> \o SortByTime(S \ {r})

\* summary[mask].sort_values("avg_hash_time_ms")
PlotSlice(table) ==
  SortByTime({ r \in table : r.salted = FALSE /\ r.dict = "large" })

\* the bars of one chart: a label and a height per row of plotdf
Bars(df, column) ==
  [ i \in DOMAIN df |->
      << df[i].algorithm, df[i].param,
         IF column = "avg_hash_time_ms" THEN df[i].avg_hash_time_ms
                                        ELSE df[i].cracked_rate >> ]

\* df and summary are built and summary.csv is written
Aggregate ==
  /\ pc = "aggregate"
  /\ summary' = Aggregated(rows)
  /\ files' = WriteFile(files, "summary.csv", summary')
  /\ pc' = "plot_hash_time"
  /\ UNCHANGED << run, seed, rng, hashseed, pw_df, dict_words, dict_list,
                  small_dict, large_dict, loop, prob, rows, plotdf, stdout,
                  history, trialVars, probeVars >>

\* the first figure
PlotHashTime ==
  /\ pc = "plot_hash_time"
  /\ plotdf' = PlotSlice(summary)
  /\ files' = WriteFile(files, "hash_time_by_algo.png",
                        Bars(plotdf', "avg_hash_time_ms"))
  /\ pc' = "plot_cracked_rate"
  /\ UNCHANGED << run, seed, rng, hashseed, pw_df, dict_words, dict_list,
                  small_dict, large_dict, loop, prob, rows, summary, stdout,
                  history, trialVars, probeVars >>

\* the second figure
PlotCrackedRate ==
  /\ pc = "plot_cracked_rate"
  /\ files' = WriteFile(files, "cracked_rate_by_algo.png",
                        Bars(plotdf, "cracked_rate"))
  /\ pc' = "finish"
  /\ UNCHANGED << run, seed, rng, hashseed, pw_df, dict_words, dict_list,
                  small_dict, large_dict, loop, prob, rows, summary, plotdf,
                  stdout, history, trialVars, probeVars >>

\* the closing print; the process ends
Finish ==
  /\ pc = "finish"
  /\ stdout' = Append(stdout, "Simulation complete. Results in ./results/")
  /\ pc' = "done"
  /\ UNCHANGED << run, seed, rng, hashseed, pw_df, dict_words, dict_list,
                  small_dict, large_dict, loop, prob, rows, summary, plotdf,
                  files, history, trialVars, probeVars >>

\* what a finished run produced
Outputs ==
  [ passwords |-> pw_df, dictionary |-> dict_list, small_dict |-> small_dict,
    large_dict |-> large_dict, rows |-> rows ]

\* the script is started again: a new process with a new hash key and the
\* same seed; ./results keeps the files of the earlier run
Rerun ==
  /\ pc = "done"
  /\ run < MaxRuns
  /\ run' = run + 1
  /\ history' = Append(history, Outputs)
  /\ hashseed' \in HashSeeds
  /\ pc' = "generate"
  /\ rng' = SeedState(seed)
  /\ pw_df' = << >>
  /\ dict_words' = {}
  /\ dict_list' = << >>
  /\ small_dict' = {}
  /\ large_dict' = {}
  /\ loop' = FirstLoop
  /\ prob' = 0
  /\ rows' = << >>
  /\ summary' = {}
  /\ plotdf' = << >>
  /\ stdout' = << >>
  /\ UNCHANGED << seed, files, trialVars, probeVars >>

Next ==
  \/ Generate
  \/ WritePasswords
  \/ BuildDictionary
  \/ SliceDictionary
  \/ TrialPBKDF2
  \/ TrialBcrypt
  \/ TrialArgon2
  \/ TrialFast
  \/ Aggregate
  \/ PlotHashTime
  \/ PlotCrackedRate
  \/ Finish
  \/ Rerun

Spec == Init /\ [][Next]_vars

-----------------------------------------------------------------------------
(* one trial on chosen inputs: base_hash_time_ms and crack_probability are  *)
(* applied to arguments drawn from bounded sets, and the outcome is decided *)
(* by one draw, as in the body of the innermost loop                        *)

SamplePasswords ==
  { <<"p","a","s","s","w","o","r","d","0">>,
    <<"p","a","s","s","w","o","r","d","1","2","3">>,
    <<"P","a","s","s","w","o","r","d","1","2","3","!">>,
    <<"A","d","m","i","n","!">>,
    <<"f","o","o","t","b","a","l","l","!","1">>,
    <<"b","1","W","!","T","E","Q","B","B",")","H","K","n","C","v","%">> }

Strengths == { "weak", "medium", "strong" }

SampleDicts ==
  { {},
    BuildDictWords,
    PrefixSet(SetToList(BuildDictWords, 0), SmallPrefix),
    { <<"p","a","s","s","w","o","r","d","0">>,
      <<"p","a","s","s","w","o","r","d","1","2","3">>,
      <<"A","d","m","i","n","!">> } }

Iterations == { 1, 500, 1000, 2000, 5000, 10000, 20000, 50000 }
Costs == 4 .. MaxCost
MemSizes == { Pow2(k) : k \in 3 .. MaxMemExp }

\* the parameter dicts tried for an algorithm; {} selects the defaults
Params(algo) ==
  CASE algo = "PBKDF2" -> { EmptyParam } \cup { [ iterations |-> i ] : i \in Iterations }
    [] algo = "bcrypt" -> { EmptyParam } \cup { [ cost |-> c ] : c \in Costs }
    [] algo = "Argon2" -> { EmptyParam } \cup { [ mem_kb |-> m ] : m \in MemSizes }
    [] OTHER           -> { EmptyParam }

AlgorithmNames == { algorithms[i].name : i \in DOMAIN algorithms }

\* generator states whose next draws are 0, 0.9499, 0.95 and 0.9501
RngSamples == { 3915, 12225, 4774, 16026 }

InitTrial ==
  /\ run = 1
  /\ seed = 42
  /\ hashseed = 0
  /\ files = [ f \in {} |-> << >> ]
  /\ history = << >>
  /\ pc = "idle"
  /\ rng \in RngSamples
  /\ Blank
  /\ ProbeIdle
  /\ tpc = "ready"
  /\ \E password \in SamplePasswords, strength \in Strengths,
        algo \in AlgorithmNames, salted \in BOOLEAN, d \in SampleDicts :
       \E param \in Params(algo) :
         arg = [ pw |-> [ id |-> 0, password |-> password, strength |-> strength ],
                 algo |-> algo, param |-> param, salted |-> salted,
                 attacker_dict |-> d ]
  /\ trial = NoTrial

\* t, prob and the comparison prob > random.random()
RunTrial ==
  /\ tpc = "ready"
  /\ LET t == base_hash_time_ms(arg.algo, arg.param)
         p == crack_probability(arg.pw, arg.algo, arg.param, arg.salted,
                                arg.attacker_dict)
         draw == Random(rng)
     IN  trial' = [ hash_time_ms |-> t, prob |-> p, draw |-> draw,
                    cracked |-> (p > draw) ]
  /\ rng' = RngNext(rng)
  /\ tpc' = "done"
  /\ UNCHANGED << pc, run, seed, hashseed, pw_df, dict_words, dict_list,
                  small_dict, large_dict, loop, prob, rows, summary, plotdf,
                  files, stdout, history, arg, probeVars >>

NextTrial == RunTrial

SpecTrial == InitTrial /\ [][NextTrial]_vars

-----------------------------------------------------------------------------
(* Properties of one trial *)

\* the arguments of the trial that has run
TrialDone == tpc = "done"
RawHit == arg.pw.password \in arg.attacker_dict

\* C1: the probability that is compared against the draw lies in [0, 1],
\* whatever the password, algorithm, parameter, salting flag and dictionary
C1_ProbabilityInUnitInterval ==
  TrialDone => (0 <= trial.prob /\ trial.prob <= Scale)

\* a dictionary hit under one of the configured bcrypt costs, salted
C1_Witness ==
  /\ TrialDone
  /\ RawHit
  /\ arg.algo = "bcrypt"
  /\ arg.param = [ cost |-> 8 ]
  /\ arg.salted
  /\ trial.prob = 6300

\* C2: a weak password of the dictionary under MD5, unsalted, has
\* probability 0.95, and cracked is True exactly when the one draw of the
\* trial is strictly below the probability
C2_WeakMd5HitIsCrackedBelow095 ==
  TrialDone =>
    /\ trial.draw = (rng * Scale) \div RngModulus
    /\ trial.cracked <=> (trial.draw < trial.prob)
    /\ (RawHit /\ arg.pw.strength = "weak" /\ arg.algo = "MD5" /\ ~arg.salted)
         => /\ trial.prob = 9500
            /\ trial.draw < 9500 => trial.cracked
            /\ trial.draw > 9500 => ~trial.cracked

\* password0, weak, in the dictionary, MD5, unsalted, a draw just below 0.95
C2_Witness ==
  /\ TrialDone
  /\ arg.pw.password = <<"p","a","s","s","w","o","r","d","0">>
  /\ arg.pw.strength = "weak"
  /\ RawHit
  /\ arg.algo = "MD5"
  /\ ~arg.salted
  /\ trial.draw = 9499
  /\ trial.cracked

\* the password lowercased with every non-alphanumeric character removed
RECURSIVE Normalized(_)
Normalized(s) ==
  IF s = << >> THEN << >>
  ELSE LET c == LowerChar(Head(s))
       IN  IF IsAlnum(c) THEN << c >> \o Normalized(Tail(s)) ELSE Normalized(Tail(s))

\* the trial used a dictionary-hit probability: every hit value exceeds 0.05
\* and no miss value does
TreatedAsHit == trial.prob > 500

\* C3: a password is treated as a dictionary hit exactly when its raw string
\* or its lowercased alphanumeric form is in the dictionary; Password123! is
\* a hit against a dictionary that holds password123
C3_MembershipIsNormalized ==
  TrialDone =>
    /\ TreatedAsHit <=> (RawHit \/ Normalized(arg.pw.password) \in arg.attacker_dict)
    /\ ( /\ arg.pw.password = <<"P","a","s","s","w","o","r","d","1","2","3","!">>
         /\ <<"p","a","s","s","w","o","r","d","1","2","3">> \in arg.attacker_dict )
         => TreatedAsHit

\* Password123! is not itself in the dictionary and is a hit through password123
C3_Witness ==
  /\ TrialDone
  /\ arg.pw.password = <<"P","a","s","s","w","o","r","d","1","2","3","!">>
  /\ ~RawHit
  /\ <<"p","a","s","s","w","o","r","d","1","2","3">> \in arg.attacker_dict
  /\ TreatedAsHit

\* the probability of the same trial with salting enabled
SaltedTwin ==
  crack_probability(arg.pw, arg.algo, arg.param, TRUE, arg.attacker_dict)

\* C4 as stated: salting never raises the probability and strictly lowers
\* every positive one
C4_SaltingStrictlyLowers ==
  (TrialDone /\ ~arg.salted) =>
    /\ SaltedTwin <= trial.prob
    /\ trial.prob > 0 => SaltedTwin < trial.prob

\* C4 amended: salting never raises the probability; it strictly lowers
\* every positive one whose salted value is below 1 before the clamp; and
\* an unsalted value that the clamp leaves alone is multiplied by 0.4 for the
\* fast digests and by 0.7 for the other schemes
C4_SaltingLowersUnlessClamped ==
  (TrialDone /\ ~arg.salted) =>
    LET unsalted == Unclamped(arg.pw, arg.algo, arg.param, FALSE, arg.attacker_dict)
        salted   == Unclamped(arg.pw, arg.algo, arg.param, TRUE, arg.attacker_dict)
    IN  /\ SaltedTwin <= trial.prob
        /\ (trial.prob > 0 /\ salted < Scale) => SaltedTwin < trial.prob
        /\ unsalted <= Scale =>
             SaltedTwin = IF arg.algo \in { "MD5", "SHA1", "SHA256" }
                          THEN (trial.prob * 4) \div 10
                          ELSE (trial.prob * 7) \div 10

\* a hit under bcrypt with cost 6: 1 unsalted (clamped), below 1 salted
C4_Witness ==
  /\ TrialDone
  /\ ~arg.salted
  /\ RawHit
  /\ arg.algo = "bcrypt"
  /\ arg.param = [ cost |-> 6 ]
  /\ trial.prob = Scale
  /\ SaltedTwin < Scale

\* the value of the scheme parameter a parameter dict selects
ParamValue(algo, param) ==
  CASE algo = "PBKDF2" -> Get(param, "iterations", 1000)
    [] algo = "bcrypt" -> Get(param, "cost", 10)
    [] algo = "Argon2" -> Get(param, "mem_kb", 32)
    [] OTHER -> 0

\* C5: for a dictionary hit, a larger iteration count, cost factor or memory
\* size never gives a higher probability, the other arguments being equal
C5_MonotoneInParameter ==
  (TrialDone /\ InDict(arg.pw.password, arg.attacker_dict)) =>
    \A larger \in Params(arg.algo) :
      ParamValue(arg.algo, larger) >= ParamValue(arg.algo, arg.param) =>
        crack_probability(arg.pw, arg.algo, larger, arg.salted, arg.attacker_dict)
          <= trial.prob

\* a hit under PBKDF2 with 1000 iterations, strictly above the value for 50000
C5_Witness ==
  /\ TrialDone
  /\ RawHit
  /\ arg.algo = "PBKDF2"
  /\ arg.param = [ iterations |-> 1000 ]
  /\ crack_probability(arg.pw, arg.algo, [ iterations |-> 50000 ], arg.salted,
                       arg.attacker_dict) < trial.prob

-----------------------------------------------------------------------------
(* Properties of the pipeline *)

LoopsFinished == pc \in { "aggregate", "plot_hash_time", "plot_cracked_rate", "finish", "done" }
Summarised == pc \in { "plot_hash_time", "plot_cracked_rate", "finish", "done" }

\* the parameter labels of one entry of the algorithm table
ConfigLabels(a) ==
  CASE a.name = "PBKDF2" -> { << "iters=", a.iterations[i] >> : i \in DOMAIN a.iterations }
    [] a.name = "bcrypt" -> { << "cost=", a.costs[i] >> : i \in DOMAIN a.costs }
    [] a.name = "Argon2" -> { << "mem=", a.mem_kb[i], "KB" >> : i \in DOMAIN a.mem_kb }
    [] OTHER -> { << >> }

\* every (algorithm, parameter label, salted, dictionary) the run must cover
ExpectedGroups ==
  UNION { { << algorithms[i].name, label, salted, d >> :
              label \in ConfigLabels(algorithms[i]),
              salted \in BOOLEAN, d \in { "small", "large" } }
          : i \in DOMAIN algorithms }

\* the positions of the rows of one group, in table order
RowsOf(k) == SelectSeq([ i \in DOMAIN rows |-> i ], LAMBDA i : GroupKey(rows[i]) = k)

\* C6: after the loops the table holds, for every configuration, salting flag
\* and dictionary, one row per password record, in the order of the records;
\* each algorithm contributes |passwords| x |configs| x 2 x 2 rows; and every
\* summary group has total = |passwords| and cracked_rate = cracked_sum / total
C6_OneRowPerTuple ==
  /\ LoopsFinished =>
       /\ { GroupKey(rows[i]) : i \in DOMAIN rows } = ExpectedGroups
       /\ \A k \in ExpectedGroups :
            /\ Len(RowsOf(k)) = NumPasswords
            /\ \A n \in 1 .. NumPasswords :
                 rows[RowsOf(k)[n]].strength = pw_df[n].strength
       /\ \A i \in DOMAIN algorithms :
            Cardinality({ j \in DOMAIN rows : rows[j].algorithm = algorithms[i].name })
              = NumPasswords * Cardinality(ConfigLabels(algorithms[i])) * 2 * 2
  /\ Summarised =>
       /\ { << s.algorithm, s.param, s.salted, s.dict >> : s \in summary } = ExpectedGroups
       /\ Cardinality(summary) = Cardinality(ExpectedGroups)
       /\ \A s \in summary :
            /\ s.total = NumPasswords
            /\ s.cracked_sum =
                 Cardinality({ j \in DOMAIN rows :
                                 /\ GroupKey(rows[j]) = << s.algorithm, s.param, s.salted, s.dict >>
                                 /\ rows[j].cracked })
            /\ s.cracked_rate = (s.cracked_sum * Scale) \div s.total

\* a finished run with a group in which some but not all records were cracked
C6_Witness ==
  /\ pc = "done"
  /\ Len(rows) = NumPasswords * 12 * 2 * 2
  /\ \E s \in summary : 0 < s.cracked_sum /\ s.cracked_sum < s.total

\* the artifacts the script's docstring and the interface description promise
PromisedArtifacts ==
  { "passwords.csv", "dictionary.txt", "results.csv", "summary.csv",
    "hash_time_by_algo.png", "cracked_rate_by_algo.png" }

\* C7: when a run completes, ./results holds every promised artifact
C7_AllArtifactsWritten ==
  pc = "done" => PromisedArtifacts \subseteq DOMAIN files

\* C8: a rerun with the same seed reproduces the password list, the
\* dictionary in file order, both prefix sets and every cracked outcome
C8_RerunReproduces ==
  (pc = "done" /\ history # << >>) => Outputs = history[Len(history)]

\* every password the medium branch can return
MediumPasswords ==
  { MediumPassword(b, s, t) :
      b \in DOMAIN MediumBases, s \in DOMAIN MediumSymbols, t \in DOMAIN MediumTails }

\* C10: no password of the medium branch is a dictionary hit, against the
\* full dictionary or either prefix of it, so a medium trial always gets the
\* miss probability 0.02, times 0.4 or 0.7 when salted
C10_MediumNeverHits ==
  /\ \A p \in MediumPasswords :
       /\ ~InDict(p, BuildDictWords)
       /\ ~InDict(p, dict_words) /\ ~InDict(p, small_dict) /\ ~InDict(p, large_dict)
  /\ (rows # << >> /\ rows[Len(rows)].strength = "medium") =>
       LET r == rows[Len(rows)]
       IN  prob = IF ~r.salted THEN 200
                  ELSE IF r.algorithm \in { "MD5", "SHA1", "SHA256" } THEN 80 ELSE 140

\* a salted trial of a generated medium password under a fast digest
C10_Witness ==
  /\ pc = "trials"
  /\ rows # << >>
  /\ rows[Len(rows)].strength = "medium"
  /\ rows[Len(rows)].salted
  /\ rows[Len(rows)].algorithm = "MD5"
  /\ rows[Len(rows)].dict = "large"
  /\ prob = 80

-----------------------------------------------------------------------------
(* measure_hash_times.py: the timing probe *)

OptionalLibraries == { "bcrypt", "argon2" }

\* what one timed call may take: 1 ms or 2 ms
Durations == { 1 * Scale, 2 * Scale }

\* the largest r with r * r <= n, searched between lo and hi
RECURSIVE SqrtBetween(_, _, _)
SqrtBetween(n, lo, hi) ==
  IF lo >= hi THEN lo
  ELSE The({ IF mid * mid <= n THEN SqrtBetween(n, mid, hi)
                               ELSE SqrtBetween(n, lo, mid - 1)
             : mid \in { (lo + hi + 1) \div 2 } })

\* math.sqrt of a fixed-point value below 16
Sqrt(x) == The({ SqrtBetween(n, 0, 4 * Scale) : n \in { x * Scale } })

\* statistics.mean
Mean(xs) == SumSeq(xs) \div Len(xs)

\* statistics.stdev: the sample standard deviation
Stdev(xs) ==
  The({ Sqrt(SumSeq([ i \in DOMAIN xs |-> Mul(xs[i] - m, xs[i] - m) ]) \div (Len(xs) - 1))
        : m \in { Mean(xs) } })

\* the value time_func returns for the list of measured times
TimeFuncResult(xs) == << Mean(xs), IF Len(xs) > 1 THEN Stdev(xs) ELSE 0 >>

\* the measurements in script order, with the repeats each passes
Measurements ==
  << [ what |-> "PBKDF2(1000)",   repeats |-> 10, at |-> "time_pbkdf2_1000",  then |-> "pbkdf2_50000" ],
     [ what |-> "PBKDF2(50000)",  repeats |-> 5,  at |-> "time_pbkdf2_50000", then |-> "bcrypt" ],
     [ what |-> "bcrypt cost=12", repeats |-> 5,  at |-> "time_bcrypt",       then |-> "argon2" ],
     [ what |-> "Argon2 sample",  repeats |-> 5,  at |-> "time_argon2",       then |-> "end" ] >>

\* the measurement whose time_func is running
Timed == CHOOSE m \in DOMAIN Measurements : Measurements[m].at = ppc
Timing == \E m \in DOMAIN Measurements : Measurements[m].at = ppc

InitProbe ==
  /\ run = 1
  /\ seed = 42
  /\ hashseed = 0
  /\ files = [ f \in {} |-> << >> ]
  /\ history = << >>
  /\ pc = "idle"
  /\ rng = SeedState(seed)
  /\ Blank
  /\ TrialIdle
  /\ ppc = "import_bcrypt"
  /\ installed \in SUBSET OptionalLibraries
  /\ bcrypt = "None"
  /\ PasswordHasher = "None"
  /\ times = << >>
  /\ measured = << 0, 0 >>
  /\ printed = << >>

\* ImportBcrypt without the try/except: a failed import ends the script
ImportBcryptUnguarded ==
  /\ ppc = "import_bcrypt"
  /\ IF "bcrypt" \in installed
     THEN bcrypt' = "module" /\ ppc' = "import_argon2"
     ELSE bcrypt' = bcrypt /\ ppc' = "raised"
  /\ UNCHANGED << simVars, trialVars, installed, PasswordHasher, times,
                  measured, printed >>

\* try: import bcrypt / except Exception: bcrypt = None
ImportBcrypt ==
  /\ ppc = "import_bcrypt"
  /\ bcrypt' = IF "bcrypt" \in installed THEN "module" ELSE "None"
  /\ ppc' = "import_argon2"
  /\ UNCHANGED << simVars, trialVars, installed, PasswordHasher, times,
                  measured, printed >>

\* try: from argon2 import PasswordHasher / except Exception: PasswordHasher = None
ImportArgon2 ==
  /\ ppc = "import_argon2"
  /\ PasswordHasher' = IF "argon2" \in installed THEN "class" ELSE "None"
  /\ ppc' = "pbkdf2_1000"
  /\ UNCHANGED << simVars, trialVars, installed, bcrypt, times, measured,
                  printed >>

\* the print before a measurement; time_func starts with an empty list
Announce(at, m) ==
  /\ ppc = at
  /\ printed' = Append(printed, << "measuring", Measurements[m].what >>)
  /\ times' = << >>
  /\ ppc' = Measurements[m].at
  /\ UNCHANGED << simVars, trialVars, installed, bcrypt, PasswordHasher, measured >>

\* the print in place of a measurement whose library is missing
Hint(at, library, next) ==
  /\ ppc = at
  /\ printed' = Append(printed, << "not installed", library >>)
  /\ ppc' = next
  /\ UNCHANGED << simVars, trialVars, installed, bcrypt, PasswordHasher, times,
                  measured >>

AnnouncePbkdf2_1000 == Announce("pbkdf2_1000", 1)

AnnouncePbkdf2_50000 == Announce("pbkdf2_50000", 2)

\* if bcrypt: ... else: print the installation hint
CheckBcrypt ==
  IF bcrypt # "None" THEN Announce("bcrypt", 3)
  ELSE Hint("bcrypt", "bcrypt", "argon2")

\* if PasswordHasher: ... else: print the installation hint
CheckArgon2 ==
  IF PasswordHasher # "None" THEN Announce("argon2", 4)
  ELSE Hint("argon2", "argon2-cffi", "end")

\* one iteration of the loop of time_func: the call is timed
TimeCall ==
  /\ Timing
  /\ Len(times) < Measurements[Timed].repeats
  /\ \E d \in Durations : times' = Append(times, d)
  /\ UNCHANGED << simVars, trialVars, ppc, installed, bcrypt, PasswordHasher,
                  measured, printed >>

\* time_func returns and the result line is printed
Report ==
  /\ Timing
  /\ Len(times) = Measurements[Timed].repeats
  /\ measured' = TimeFuncResult(times)
  /\ printed' = Append(printed, << "result", Measurements[Timed].what,
                                  measured'[1], measured'[2] >>)
  /\ ppc' = Measurements[Timed].then
  /\ UNCHANGED << simVars, trialVars, installed, bcrypt, PasswordHasher, times >>

NextProbe ==
  \/ ImportBcrypt
  \/ ImportArgon2
  \/ AnnouncePbkdf2_1000
  \/ AnnouncePbkdf2_50000
  \/ CheckBcrypt
  \/ CheckArgon2
  \/ TimeCall
  \/ Report

\* the script is one thread that runs until it ends or raises
SpecProbe == InitProbe /\ [][NextProbe]_vars /\ WF_vars(NextProbe)

-----------------------------------------------------------------------------
(* Properties of the probe *)

\* what a printed line is about, without the measured numbers
Kind(line) == << line[1], line[2] >>

\* the lines the probe must have printed at its end, for a set of installed
\* libraries
ExpectedLines(libs) ==
  << << "measuring", "PBKDF2(1000)" >>, << "result", "PBKDF2(1000)" >>,
     << "measuring", "PBKDF2(50000)" >>, << "result", "PBKDF2(50000)" >> >>
  \o (IF "bcrypt" \in libs
      THEN << << "measuring", "bcrypt cost=12" >>, << "result", "bcrypt cost=12" >> >>
      ELSE << << "not installed", "bcrypt" >> >>)
  \o (IF "argon2" \in libs
      THEN << << "measuring", "Argon2 sample" >>, << "result", "Argon2 sample" >> >>
      ELSE << << "not installed", "argon2-cffi" >> >>)

\* C9: whichever of bcrypt and argon2 are missing, the probe never raises,
\* reaches its end, holds None for each missing library, and at its end has
\* printed the hint of each missing library and the measurements of
\* everything else, in script order
ProbeOutcome ==
  /\ ppc # "raised"
  /\ ppc \notin { "import_bcrypt" } =>
       (bcrypt = "None" <=> "bcrypt" \notin installed)
  /\ ppc \notin { "import_bcrypt", "import_argon2" } =>
       (PasswordHasher = "None" <=> "argon2" \notin installed)
  /\ ppc = "end" =>
       [ i \in DOMAIN printed |-> Kind(printed[i]) ] = ExpectedLines(installed)

C9_ProbeDegradesGracefully == []ProbeOutcome /\ <>(ppc = "end")

\* the end of the probe on a machine with bcrypt and without argon2
C9_Witness ==
  /\ ppc = "end"
  /\ installed = { "bcrypt" }
  /\ PasswordHasher = "None"
  /\ Kind(printed[Len(printed)]) = << "not installed", "argon2-cffi" >>
  /\ Kind(printed[Len(printed) - 1]) = << "result", "bcrypt cost=12" >>

=============================================================================
